---- MODULE Spec2Model ----
(***************************************************************************)
(* A model of exhale/utils.py: the kind classifier, the console reporter,  *)
(* the custom-specification mapping builder, the compound XML reader and   *)
(* the fatal error reporter.                                               *)
(*                                                                         *)
(* Text that the code inspects character by character (console messages)   *)
(* is a sequence of one-character strings; text that the code only         *)
(* compares or concatenates (kinds, directive names) is a TLA+ string.     *)
(* Python values whose type the code inspects are records with a "type"    *)
(* field.                                                                  *)
(***************************************************************************)
EXTENDS Integers, Sequences, FiniteSets, TLC

VARIABLES
    alwaysColorize,              \* configs.alwaysColorize
    isatty,                      \* isatty() of sys.stdout and sys.stderr
    call,                        \* the last completed call of a pure function and its result
    customSpecificationsMapping, \* configs.customSpecificationsMapping
    func,                        \* the argument of makeCustomSpecificationsMapping
    mkpc,                        \* position in makeCustomSpecificationsMapping
    kindIdx,                     \* index of the loop over AVAILABLE_KINDS
    ret,                         \* the dict under construction
    funcCalls,                   \* how often func was called, per kind
    mkResult,                    \* what makeCustomSpecificationsMapping returned or raised
    doxygenOutputDirectory,      \* configs.doxygenOutputDirectory
    files,                       \* the file system: what is at each path
    xmlpc,                       \* position in nodeCompoundXMLContents
    refid,                       \* node.refid of the call in progress
    xmlResult,                   \* what nodeCompoundXMLContents returned or raised
    stack,                       \* the frames of fancyError in progress (re-entrant calls on top)
    defaults,                    \* fancyError.__defaults__
    stderr,                      \* the writes made to sys.stderr, in order
    hookRuns,                    \* how often each hook was invoked
    process                      \* the process: running, exited (with a status) or raised

vars == <<alwaysColorize, isatty, call, customSpecificationsMapping,
          func, mkpc, kindIdx, ret, funcCalls, mkResult,
          doxygenOutputDirectory, files, xmlpc, refid, xmlResult,
          stack, defaults, stderr, hookRuns, process>>

----------------------------------------------------------------------------
(* Bounds of the model *)

\* longest console message, in characters
MaxLen == 4

----------------------------------------------------------------------------
(* Python values *)

PyNone == [type |-> "NoneType"]

Str(s) == [type |-> "str", val |-> s]

\* bool(v) as the `if v:` tests of the module take it
Truthy(v) ==
    CASE v.type = "NoneType" -> FALSE
      [] v.type = "str"      -> Len(v.val) > 0
      [] v.type = "list"     -> Len(v.val) > 0
      [] v.type = "dict"     -> DOMAIN v.items # {}
      [] OTHER               -> TRUE

----------------------------------------------------------------------------
(* Console reporter: utils.py 389-488 *)

\* the characters console messages are drawn from
Chars == {"a", "\n", "\r"}

\* the line boundaries of str.splitlines that occur in Chars
LineBoundaries == {"\n", "\r"}

Whitespace == {" ", "\n", "\r"}

\* text.splitlines(True): the lines of text, each keeping its line ending;
\* "\r\n" is one ending, and a trailing ending starts no further line
RECURSIVE SplitFrom(_, _, _)
SplitFrom(text, i, cur) ==
    IF i > Len(text)
      THEN IF cur = <<>> THEN <<>> ELSE <<cur>>
      ELSE IF text[i] = "\r" /\ i < Len(text) /\ text[i + 1] = "\n"
        THEN <<cur \o <<"\r", "\n">>>> \o SplitFrom(text, i + 2, <<>>)
        ELSE IF text[i] \in LineBoundaries
          THEN <<cur \o <<text[i]>>>> \o SplitFrom(text, i + 1, <<>>)
          ELSE SplitFrom(text, i + 1, cur \o <<text[i]>>)

splitlines(text) == SplitFrom(text, 1, <<>>)

\* ''.join(parts)
RECURSIVE join(_)
join(parts) ==
    IF parts = <<>> THEN <<>> ELSE Head(parts) \o join(Tail(parts))

\* line.strip() is non-empty
strip(line) == \E i \in 1..Len(line) : line[i] \notin Whitespace

\* the predicates indent is called with: None (the default, non-blank lines
\* only) and prefix's `lambda x: True`
LambdaTrue == "lambda x: True"

predicateHolds(predicate, line) ==
    IF predicate = "None" THEN strip(line) ELSE TRUE

indent(text, token, predicate) ==
    LET lines == splitlines(text)
    IN  join([k \in 1..Len(lines) |->
                IF predicateHolds(predicate, lines[k])
                  THEN token \o lines[k] ELSE lines[k]])

prefixSkippingBlank(token, msg) == indent(msg, token, "None")

prefix(token, msg) == indent(msg, token, LambdaTrue)

\* AnsiColors.BOLD_GREEN, BOLD_BLUE, BOLD_RED
BOLD_GREEN == <<"3", "2", ";", "1", "m">>
BOLD_BLUE  == <<"3", "4", ";", "1", "m">>
BOLD_RED   == <<"3", "1", ";", "1", "m">>

\* "\033" is the one character ESC
ESC == "ESC"

AnsiReset == <<ESC, "[", "0", "m">>

colorize(msg, ansi_fmt) == <<ESC, "[">> \o ansi_fmt \o msg \o AnsiReset

use_colorInverted(msg, ansi_fmt, output_stream) ==
    IF ~alwaysColorize \/ ~isatty[output_stream]
      THEN msg
      ELSE colorize(msg, ansi_fmt)

use_color(msg, ansi_fmt, output_stream) ==
    IF ~alwaysColorize /\ ~isatty[output_stream]
      THEN msg
      ELSE colorize(msg, ansi_fmt)

ProgressToken == <<"[", "+", "]", " ">>
InfoToken     == <<"[", "~", "]", " ">>
CriticalToken == <<"(", "!", ")", " ">>

progress(msg, ansi_fmt, output_stream) ==
    use_color(prefix(ProgressToken, msg), ansi_fmt, output_stream)

info(msg, ansi_fmt, output_stream) ==
    use_color(prefix(InfoToken, msg), ansi_fmt, output_stream)

critical(msg, ansi_fmt, output_stream) ==
    use_color(prefix(CriticalToken, msg), ansi_fmt, output_stream)

----------------------------------------------------------------------------
(* Variable groups and their values while a part of the module is not in use *)

colorVars == <<alwaysColorize, isatty>>
mkVars    == <<func, mkpc, kindIdx, ret, funcCalls, mkResult>>
xmlVars   == <<doxygenOutputDirectory, files, xmlpc, refid, xmlResult>>
fatalVars == <<stack, defaults, stderr, hookRuns, process>>

NoCall == [fn |-> "none"]

Streams == {"stdout", "stderr"}

InitColor ==
    /\ alwaysColorize \in BOOLEAN
    /\ isatty \in [Streams -> BOOLEAN]

IdleKind == customSpecificationsMapping = PyNone

IdleMk ==
    /\ func = PyNone
    /\ mkpc = "idle"
    /\ kindIdx = 0
    /\ ret = PyNone
    /\ funcCalls = <<>>
    /\ mkResult = PyNone

IdleXml ==
    /\ doxygenOutputDirectory = ""
    /\ files = <<>>
    /\ xmlpc = "idle"
    /\ refid = ""
    /\ xmlResult = PyNone

IdleFatal ==
    /\ stack = <<>>
    /\ defaults = <<PyNone, PyNone>>
    /\ stderr = <<>>
    /\ hookRuns = <<>>
    /\ process = [state |-> "running"]

----------------------------------------------------------------------------
(* Calls of the console helpers *)

Messages == UNION {[1..n -> Chars] : n \in 0..MaxLen}

CallProgress ==
    \E msg \in Messages, ansi_fmt \in {BOLD_GREEN, BOLD_RED}, output_stream \in Streams :
        /\ call = NoCall
        /\ call' = [fn |-> "progress", token |-> ProgressToken, msg |-> msg,
                    ansi_fmt |-> ansi_fmt, output_stream |-> output_stream,
                    result |-> progress(msg, ansi_fmt, output_stream)]
        /\ UNCHANGED <<colorVars, customSpecificationsMapping, mkVars, xmlVars, fatalVars>>

CallInfo ==
    \E msg \in Messages, ansi_fmt \in {BOLD_BLUE, BOLD_RED}, output_stream \in Streams :
        /\ call = NoCall
        /\ call' = [fn |-> "info", token |-> InfoToken, msg |-> msg,
                    ansi_fmt |-> ansi_fmt, output_stream |-> output_stream,
                    result |-> info(msg, ansi_fmt, output_stream)]
        /\ UNCHANGED <<colorVars, customSpecificationsMapping, mkVars, xmlVars, fatalVars>>

CallCritical ==
    \E msg \in Messages, ansi_fmt \in {BOLD_RED, BOLD_GREEN}, output_stream \in Streams :
        /\ call = NoCall
        /\ call' = [fn |-> "critical", token |-> CriticalToken, msg |-> msg,
                    ansi_fmt |-> ansi_fmt, output_stream |-> output_stream,
                    result |-> critical(msg, ansi_fmt, output_stream)]
        /\ UNCHANGED <<colorVars, customSpecificationsMapping, mkVars, xmlVars, fatalVars>>

InitConsole ==
    /\ InitColor
    /\ call = NoCall
    /\ IdleKind /\ IdleMk /\ IdleXml /\ IdleFatal

NextConsole == CallProgress \/ CallInfo \/ CallCritical

SpecConsole == InitConsole /\ [][NextConsole]_vars

----------------------------------------------------------------------------
(* Properties of the console helpers *)

ConsoleCall == call.fn \in {"progress", "info", "critical"}

\* the positions of msg at which a line starts: the first character, and
\* every character that follows a line ending ("\r\n" being one ending)
LineStarts(msg) ==
    {i \in 1..Len(msg) :
        \/ i = 1
        \/ msg[i - 1] = "\n"
        \/ msg[i - 1] = "\r" /\ msg[i] # "\n"}

\* text is msg with token inserted in front of every line and nothing else
\* changed
IsPrefixed(text, token, msg) ==
    LET starts == LineStarts(msg)
        pos(i) == i + Len(token) * Cardinality({j \in starts : j <= i})
    IN  /\ Len(text) = Len(msg) + Len(token) * Cardinality(starts)
        /\ \A i \in 1..Len(msg) : text[pos(i)] = msg[i]
        /\ \A j \in starts : \A k \in 1..Len(token) :
               text[pos(j) - Len(token) + k - 1] = token[k]

CountEsc(text) == Cardinality({i \in 1..Len(text) : text[i] = ESC})

\* text is body inside exactly one escape prefix and one reset suffix
IsWrapped(text, ansi_fmt, body) ==
    /\ text = <<ESC, "[">> \o ansi_fmt \o body \o AnsiReset
    /\ CountEsc(text) = 2

\* the result of a console call without its colour wrapping, if it has one
Body(c) ==
    IF Len(c.result) > 0 /\ c.result[1] = ESC
      THEN SubSeq(c.result, Len(c.ansi_fmt) + 3, Len(c.result) - Len(AnsiReset))
      ELSE c.result

\* C7: progress, info and critical put their token at the start of every
\* line of the message, empty lines included, and leave the rest of each
\* line unchanged; with alwaysColorize set the whole prefixed text is
\* wrapped in exactly one escape prefix and one reset suffix.
C7_PrefixEveryLine ==
    ConsoleCall =>
        /\ IsPrefixed(Body(call), call.token, call.msg)
        /\ alwaysColorize => IsWrapped(call.result, call.ansi_fmt, Body(call))

\* progress("a\n\na") with colour forced on: three tokens, one wrapping
C7_Witness ==
    /\ call.fn = "progress"
    /\ alwaysColorize
    /\ call.msg = <<"a", "\n", "\n", "a">>
    /\ call.result = <<ESC, "[">> \o BOLD_GREEN
                       \o <<"[", "+", "]", " ", "a", "\n">>
                       \o <<"[", "+", "]", " ", "\n">>
                       \o <<"[", "+", "]", " ", "a">> \o AnsiReset

\* C8: the result is colorized if and only if alwaysColorize is set or the
\* destination stream is a terminal; otherwise it is exactly the prefixed
\* message, with no escape sequence added.
C8_ColorIffFlagOrTty ==
    ConsoleCall =>
        IF alwaysColorize \/ isatty[call.output_stream]
          THEN \E body \in {Body(call)} :
                   /\ IsWrapped(call.result, call.ansi_fmt, body)
                   /\ IsPrefixed(body, call.token, call.msg)
          ELSE /\ CountEsc(call.result) = 0
               /\ IsPrefixed(call.result, call.token, call.msg)

\* a call coloured only because the stream is a terminal
C8_Witness ==
    /\ call.fn = "critical"
    /\ ~alwaysColorize
    /\ isatty[call.output_stream]
    /\ ~isatty["stdout"]
    /\ call.msg = <<"a">>
    /\ call.result = <<ESC, "[">> \o BOLD_RED \o <<"(", "!", ")", " ", "a">> \o AnsiReset

----------------------------------------------------------------------------
(* Kind classifier: utils.py 28-42, 159-269 *)

AVAILABLE_KINDS ==
    <<"class", "struct", "function", "enum", "enumvalue", "namespace", "define",
      "typedef", "variable", "file", "dir", "group", "union">>

KnownKinds == {AVAILABLE_KINDS[i] : i \in 1..Len(AVAILABLE_KINDS)}

\* the breathe kinds the docstrings of qualifyKind and kindAsBreatheDirective
\* call ignored
IgnoredKinds == {"autodoxygenfile", "doxygenindex", "autodoxygenindex"}

\* the kinds callers pass: the known ones, the ignored ones, an unknown one
KindInputs == KnownKinds \cup IgnoredKinds \cup {"bogus"}

\* configs._closure_map_sanity_check, a fixed string that is no kind
closure_map_sanity_check == "closure_map_sanity_check"

Dict(items) == [type |-> "dict", items |-> items]

List(elems) == [type |-> "list", val |-> elems]

Return(v) == [outcome |-> "return", value |-> v]

Raise(exc, msg) == [outcome |-> "raise", exc |-> exc, msg |-> msg]

kindAsBreatheDirective(kind) == Return(Str("doxygen" \o kind))

specificationsForKindClassOnly(kind) ==
    IF Truthy(customSpecificationsMapping)
      THEN IF kind \in DOMAIN customSpecificationsMapping.items
             THEN Return(customSpecificationsMapping.items[kind])
             ELSE Raise("KeyError", kind)
      ELSE IF kind = "class"
             THEN Return(List(<<":members:", ":protected-members:", ":undoc-members:">>))
             ELSE Return(List(<<>>))

specificationsForKind(kind) ==
    IF Truthy(customSpecificationsMapping)
      THEN IF kind \in DOMAIN customSpecificationsMapping.items
             THEN Return(customSpecificationsMapping.items[kind])
             ELSE Raise("KeyError", kind)
      ELSE IF kind = "class" \/ kind = "struct"
             THEN Return(List(<<":members:", ":protected-members:", ":undoc-members:">>))
             ELSE Return(List(<<>>))

\* most keys of a registered mapping that is not a complete one
MaxKeys == 2

\* the modifier texts a custom mapping holds
SpecTexts == {Str(""), Str("   :members:")}

MappingKeys == KnownKinds \cup {closure_map_sanity_check}

\* the mappings a configuration may register: a complete one (every known
\* kind and the marker) or one with any few keys, the empty one included
CustomMappings ==
    {Dict([k \in MappingKeys |->
             IF k = closure_map_sanity_check THEN Str(closure_map_sanity_check) ELSE t]) :
        t \in SpecTexts}
    \cup UNION {{Dict(items) : items \in [d -> SpecTexts]} :
                  d \in {e \in SUBSET MappingKeys : Cardinality(e) <= MaxKeys}}

CallSpecificationsForKind ==
    \E kind \in KindInputs :
        /\ call = NoCall
        /\ call' = [fn |-> "specificationsForKind", kind |-> kind,
                    result |-> specificationsForKind(kind)]
        /\ UNCHANGED <<colorVars, customSpecificationsMapping, mkVars, xmlVars, fatalVars>>

CallKindAsBreatheDirective ==
    \E kind \in KindInputs :
        /\ call = NoCall
        /\ call' = [fn |-> "kindAsBreatheDirective", kind |-> kind,
                    result |-> kindAsBreatheDirective(kind)]
        /\ UNCHANGED <<colorVars, customSpecificationsMapping, mkVars, xmlVars, fatalVars>>

IdleColor ==
    /\ alwaysColorize = FALSE
    /\ isatty = [s \in Streams |-> FALSE]

InitKind ==
    /\ customSpecificationsMapping \in {PyNone} \cup CustomMappings
    /\ call = NoCall
    /\ IdleColor /\ IdleMk /\ IdleXml /\ IdleFatal

NextKind == CallSpecificationsForKind \/ CallKindAsBreatheDirective

SpecKind == InitKind /\ [][NextKind]_vars

----------------------------------------------------------------------------
(* Properties of the kind classifier *)

\* C5: whenever a custom mapping is registered, whatever its entries,
\* specificationsForKind returns the mapping's entry for a kind that is a
\* key and fails with a lookup error for a kind that is not; it never falls
\* back to the built-in defaults.
C5_RegisteredMappingAlwaysUsed ==
    (call.fn = "specificationsForKind" /\ customSpecificationsMapping.type = "dict") =>
        IF call.kind \in DOMAIN customSpecificationsMapping.items
          THEN call.result = Return(customSpecificationsMapping.items[call.kind])
          ELSE call.result.outcome = "raise" /\ call.result.exc = "KeyError"

DefaultModifiers == <<":members:", ":protected-members:", ":undoc-members:">>

DirectiveTable ==
    [class |-> "doxygenclass", define |-> "doxygendefine", enum |-> "doxygenenum",
     enumvalue |-> "doxygenenumvalue", file |-> "doxygenfile",
     function |-> "doxygenfunction", group |-> "doxygengroup",
     namespace |-> "doxygennamespace", struct |-> "doxygenstruct",
     typedef |-> "doxygentypedef", union |-> "doxygenunion",
     variable |-> "doxygenvariable"]

\* C10: kindAsBreatheDirective returns the empty string for every
\* unrecognized kind and for the ignored kinds; only the kinds of its table
\* yield "doxygen" followed by the kind.
C10_EmptyForUnlistedKinds ==
    call.fn = "kindAsBreatheDirective" =>
        /\ call.result.outcome = "return"
        /\ call.result.value.type = "str"
        /\ call.result.value.val =
               IF call.kind \in DOMAIN DirectiveTable
                 THEN DirectiveTable[call.kind] ELSE ""

----------------------------------------------------------------------------
(* makeCustomSpecificationsMapping: utils.py 46-73 *)

\* most kinds for which an argument function does something other than
\* return its usual string
MaxOdd == 2

\* what a function does for a kind other than return a string: return a
\* value of another type, raise an Exception, raise a BaseException that is
\* no Exception
OddOutcomes ==
    {Return(List(<<":members:">>)),
     Raise("Exception", <<"boom">>),
     Raise("KeyboardInterrupt", <<>>)}

\* two functions that return a string for every kind
StringFunctions ==
    {[k \in KnownKinds |-> Return(Str(""))],
     [k \in KnownKinds |-> Return(Str("   :" \o k \o ":"))]}

\* the function arguments: a string function, changed on at most MaxOdd kinds
Functions ==
    UNION {{[type |-> "function",
             behaviour |-> [k \in KnownKinds |-> IF k \in odd THEN o[k] ELSE base[k]]] :
               o \in [odd -> OddOutcomes], base \in StringFunctions} :
           odd \in {e \in SUBSET KnownKinds : Cardinality(e) <= MaxOdd}}

\* arguments that are no function
NonFunctions == {PyNone, Str("   :members:")}

\* isinstance(func, types.FunctionType)
IsFunction(v) == v.type = "function"

\* the negation of `type(specs) is not str`, here accepting lists as well
IsStrOrList(v) == v.type \in {"str", "list"}

\* the negation of `type(specs) is not str`
IsStr(v) == v.type = "str"

\* the dict a mapping starts as, here without the marker
Unstamped == Dict(<<>>)

\* ret = {configs._closure_map_sanity_check: configs._closure_map_sanity_check}
Stamped == Dict(closure_map_sanity_check :> Str(closure_map_sanity_check))

\* ret[key] = value
SetItem(d, key, value) ==
    Dict([k \in DOMAIN d.items \cup {key} |-> IF k = key THEN value ELSE d.items[k]])

NotAStringMessage(kind) ==
    <<"The custom specifications function did not return a string for input", kind>>

\* raise RuntimeError("Unable to create custom specifications:\n{0}".format(e))
Wrapped(e) == Raise("RuntimeError", <<"Unable to create custom specifications:", e>>)

\* lines 48-56: the type check of the argument and the stamp
MkStart ==
    /\ mkpc = "start"
    /\ IF ~IsFunction(func)
         THEN /\ mkResult' = Raise("ValueError", <<"*NOT* a function", func.type>>)
              /\ mkpc' = "done"
              /\ UNCHANGED <<ret, kindIdx>>
         ELSE /\ ret' = Stamped
              /\ kindIdx' = 1
              /\ mkpc' = "loop"
              /\ UNCHANGED mkResult
    /\ UNCHANGED <<func, funcCalls, colorVars, call, customSpecificationsMapping,
                   xmlVars, fatalVars>>

\* lines 60-70: one iteration of the loop: the call of func, the check of
\* its result, the handler that wraps an Exception
MkLoop ==
    /\ mkpc = "loop"
    /\ kindIdx <= Len(AVAILABLE_KINDS)
    /\ LET kind  == AVAILABLE_KINDS[kindIdx]
           specs == func.behaviour[kind]
       IN  /\ funcCalls' = [funcCalls EXCEPT ![kind] = @ + 1]
           /\ CASE specs.outcome = "raise" /\ specs.exc = "Exception" ->
                     /\ mkResult' = Wrapped(specs.msg)
                     /\ mkpc' = "done"
                     /\ UNCHANGED <<ret, kindIdx>>
                [] specs.outcome = "raise" /\ specs.exc # "Exception" ->
                     /\ mkResult' = specs
                     /\ mkpc' = "done"
                     /\ UNCHANGED <<ret, kindIdx>>
                [] specs.outcome = "return" /\ ~IsStr(specs.value) ->
                     /\ mkResult' = Wrapped(NotAStringMessage(kind))
                     /\ mkpc' = "done"
                     /\ UNCHANGED <<ret, kindIdx>>
                [] OTHER ->
                     /\ ret' = SetItem(ret, kind, specs.value)
                     /\ kindIdx' = kindIdx + 1
                     /\ UNCHANGED <<mkpc, mkResult>>
    /\ UNCHANGED <<func, colorVars, call, customSpecificationsMapping, xmlVars, fatalVars>>

\* line 73: return ret
MkReturn ==
    /\ mkpc = "loop"
    /\ kindIdx > Len(AVAILABLE_KINDS)
    /\ mkResult' = Return(ret)
    /\ mkpc' = "done"
    /\ UNCHANGED <<func, ret, kindIdx, funcCalls, colorVars, call,
                   customSpecificationsMapping, xmlVars, fatalVars>>

InitMk ==
    /\ func \in Functions \cup NonFunctions
    /\ mkpc = "start"
    /\ kindIdx = 0
    /\ ret = PyNone
    /\ funcCalls = [k \in KnownKinds |-> 0]
    /\ mkResult = PyNone
    /\ call = NoCall
    /\ IdleColor /\ IdleKind /\ IdleXml /\ IdleFatal

NextMk == MkStart \/ MkLoop \/ MkReturn

SpecMk == InitMk /\ [][NextMk]_vars

----------------------------------------------------------------------------
(* Properties of makeCustomSpecificationsMapping *)

ReturnsString(f, kind) ==
    f.behaviour[kind].outcome = "return" /\ f.behaviour[kind].value.type = "str"

ReturnsNonString(f, kind) ==
    f.behaviour[kind].outcome = "return" /\ f.behaviour[kind].value.type # "str"

\* C3: for a function that returns a string for each known kind the call
\* succeeds, calls the function exactly once per kind, and returns a mapping
\* whose keys are the known kinds and the marker, each kind mapped to the
\* function's value for it and the marker to itself.
C3_TotalStringFunctionSucceeds ==
    (IsFunction(func) /\ \A k \in KnownKinds : ReturnsString(func, k)) =>
        /\ \A k \in KnownKinds : funcCalls[k] <= 1
        /\ mkpc = "done" =>
             /\ mkResult.outcome = "return"
             /\ mkResult.value.type = "dict"
             /\ DOMAIN mkResult.value.items = KnownKinds \cup {closure_map_sanity_check}
             /\ Cardinality(DOMAIN mkResult.value.items) = Len(AVAILABLE_KINDS) + 1
             /\ \A k \in KnownKinds :
                    /\ mkResult.value.items[k] = func.behaviour[k].value
                    /\ funcCalls[k] = 1
             /\ mkResult.value.items[closure_map_sanity_check] = Str(closure_map_sanity_check)

C3_Witness ==
    /\ mkpc = "done"
    /\ IsFunction(func)
    /\ \A k \in KnownKinds : ReturnsString(func, k)
    /\ func.behaviour["dir"].value = Str("   :dir:")
    /\ mkResult.outcome = "return"
    /\ mkResult.value.items["dir"] = Str("   :dir:")
    /\ mkResult.value.items["class"] = Str("   :class:")

\* the index in AVAILABLE_KINDS of the first kind at which f returns a non-string
FirstNonString(f) ==
    CHOOSE i \in 1..Len(AVAILABLE_KINDS) :
        /\ ReturnsNonString(f, AVAILABLE_KINDS[i])
        /\ \A j \in 1..(i - 1) : ~ReturnsNonString(f, AVAILABLE_KINDS[j])

\* the call failed with the validation error naming the kind at index i,
\* returned no mapping, and the function was called for no later kind
FailedAt(i) ==
    /\ mkResult.outcome = "raise"
    /\ mkResult.exc = "RuntimeError"
    /\ mkResult.msg[2] = NotAStringMessage(AVAILABLE_KINDS[i])
    /\ \A j \in 1..Len(AVAILABLE_KINDS) : funcCalls[AVAILABLE_KINDS[j]] = IF j <= i THEN 1 ELSE 0

\* C4 as stated: if the function returns a non-string for at least one known
\* kind, the call fails with a validation error naming the first such kind,
\* returns no mapping, and calls the function for no kind after it.
C4_NonStringNamesFirstKind ==
    (IsFunction(func) /\ mkpc = "done"
       /\ \E k \in KnownKinds : ReturnsNonString(func, k)) =>
        FailedAt(FirstNonString(func))

\* C4 amended: the same, for a function that returns a string for every
\* kind before the first one for which it returns a non-string.
C4_NonStringAfterStringsNamesKind ==
    (IsFunction(func) /\ mkpc = "done"
       /\ \E k \in KnownKinds : ReturnsNonString(func, k)
       /\ \A j \in 1..(FirstNonString(func) - 1) : ReturnsString(func, AVAILABLE_KINDS[j])) =>
        FailedAt(FirstNonString(func))

\* a second non-string kind, after the one the error names, is never reached
C4_Witness ==
    /\ mkpc = "done"
    /\ IsFunction(func)
    /\ ReturnsNonString(func, "enum")
    /\ ReturnsNonString(func, "union")
    /\ FirstNonString(func) = 4
    /\ FailedAt(4)
    /\ funcCalls["union"] = 0

----------------------------------------------------------------------------
(* nodeCompoundXMLContents: utils.py 76-86 *)

\* the directories of the model: the ones a configuration names
OutputDirectories == {"doxyoutput/xml", "other/xml"}

Refids == {"classA", "structB"}

\* the text of a readable file
XmlTexts == {"", "<doxygen/>"}

\* what is at a path: nothing, a directory, a file that cannot be opened or
\* read, or a file with its text
FileStates ==
    {[kind |-> "absent"], [kind |-> "dir"], [kind |-> "file", readable |-> FALSE]}
    \cup {[kind |-> "file", readable |-> TRUE, text |-> t] : t \in XmlTexts}

\* os.path.join(directory, name), for a relative name
join_path(directory, name) == directory \o "/" \o name

\* "{0}.xml".format(node.refid)
XmlName(r) == r \o ".xml"

Paths == {join_path(d, XmlName(r)) : d \in OutputDirectories, r \in Refids}

\* os.path.isfile(path)
isfile(path) == files[path].kind = "file"

\* lines 80-81 without the handler of lines 84-85: a failure of open or read
\* reaches the caller
ReadUncaught(path) ==
    IF files[path].kind = "file" /\ files[path].readable
      THEN Return(Str(files[path].text))
      ELSE Raise("IOError", <<path>>)

\* lines 79-85: open and read the file; any failure is caught and gives None
ReadOrNone(path) ==
    IF files[path].kind = "file" /\ files[path].readable
      THEN Return(Str(files[path].text))
      ELSE Return(PyNone)

\* the call, with line 77: the path of the node's file
XmlCall ==
    \E r \in Refids :
        /\ xmlpc = "idle"
        /\ refid' = r
        /\ xmlpc' = "isfile"
        /\ UNCHANGED <<doxygenOutputDirectory, files, xmlResult, colorVars, call,
                       customSpecificationsMapping, mkVars, fatalVars>>

\* lines 78 and 86
XmlIsFile ==
    /\ xmlpc = "isfile"
    /\ IF isfile(join_path(doxygenOutputDirectory, XmlName(refid)))
         THEN xmlpc' = "read" /\ UNCHANGED xmlResult
         ELSE xmlpc' = "done" /\ xmlResult' = Return(PyNone)
    /\ UNCHANGED <<doxygenOutputDirectory, files, refid, colorVars, call,
                   customSpecificationsMapping, mkVars, fatalVars>>

\* lines 79-85
XmlRead ==
    /\ xmlpc = "read"
    /\ xmlResult' = ReadOrNone(join_path(doxygenOutputDirectory, XmlName(refid)))
    /\ xmlpc' = "done"
    /\ UNCHANGED <<doxygenOutputDirectory, files, refid, colorVars, call,
                   customSpecificationsMapping, mkVars, fatalVars>>

\* another process changes what is at a path while the call is in progress
FsChange ==
    \E path \in Paths, f \in FileStates :
        /\ xmlpc \in {"isfile", "read"}
        /\ files[path] # f
        /\ files' = [files EXCEPT ![path] = f]
        /\ UNCHANGED <<doxygenOutputDirectory, xmlpc, refid, xmlResult, colorVars, call,
                       customSpecificationsMapping, mkVars, fatalVars>>

InitXml ==
    /\ doxygenOutputDirectory \in OutputDirectories
    /\ files \in [Paths -> FileStates]
    /\ xmlpc = "idle"
    /\ refid = ""
    /\ xmlResult = PyNone
    /\ call = NoCall
    /\ IdleColor /\ IdleKind /\ IdleMk /\ IdleFatal

NextXml == XmlCall \/ XmlIsFile \/ XmlRead \/ FsChange

SpecXml == InitXml /\ [][NextXml]_vars

----------------------------------------------------------------------------
(* Properties of nodeCompoundXMLContents *)

\* C9: the call returns the text of <refid>.xml in the configured output
\* directory when that file exists and can be read, and None when it does
\* not exist or cannot be read; it never raises.
C9_ContentsOrNone ==
    xmlpc = "done" =>
        LET f == files[join_path(doxygenOutputDirectory, XmlName(refid))]
        IN  /\ xmlResult.outcome = "return"
            /\ IF f.kind = "file" /\ f.readable
                 THEN xmlResult.value = Str(f.text)
                 ELSE xmlResult.value = PyNone

\* a file that exists and cannot be read gives None, while the file of the
\* same name in another directory is readable
C9_Witness ==
    /\ xmlpc = "done"
    /\ doxygenOutputDirectory = "doxyoutput/xml"
    /\ refid = "classA"
    /\ files["doxyoutput/xml/classA.xml"] = [kind |-> "file", readable |-> FALSE]
    /\ files["other/xml/classA.xml"] = [kind |-> "file", readable |-> TRUE, text |-> "<doxygen/>"]
    /\ xmlResult = Return(PyNone)

----------------------------------------------------------------------------
(* fancyError: utils.py 497-539 *)

\* deepest nesting of fancyError calls (a hook that calls fancyError again)
MaxDepth == 2

\* most calls of fancyError in one run of the process
MaxCalls == 2

\* the cleanup hooks a caller passes
Hooks == {"h1", "h2"}

Function(name) == [type |-> "function", name |-> name]

\* the values passed as critical_msg and as singleton_hook; Omitted stands
\* for an argument left out, which takes its value from __defaults__
Omitted == [type |-> "omitted"]

MsgArgs == {Omitted, PyNone, Str(<<>>), Str(<<"a", "\n", "a">>)}

HookArgs == {Omitted, PyNone} \cup {Function(h) : h \in Hooks}

\* what fancyErrorString returns: the traceback as text, the traceback
\* highlighted by pygments, or the fixed text of its own handler
Tracebacks ==
    {<<"<traceback>", "\n">>,
     <<"<highlighted traceback>">>,
     <<"CRITICAL: could not extract traceback.format_exc!">>}

\* the value of a parameter: the argument, or the default at `position`
Bind(arg, position) == IF arg = Omitted THEN defaults[position] ELSE arg

Frame(critical_msg, singleton_hook) ==
    [critical_msg   |-> Bind(critical_msg, 1),
     singleton_hook |-> Bind(singleton_hook, 2),
     pc             |-> "msg"]

Top == stack[Len(stack)]

Running == process.state = "running"

At(pc) == Running /\ stack # <<>> /\ Top.pc = pc

Goto(pc) == stack' = [stack EXCEPT ![Len(stack)].pc = pc]

HookExceptionMessage(e) ==
    <<"fancyError: singleton_hook caused exception: ">> \o e

\* the calls of fancyError made so far: each writes one traceback, once
\* past line 526
CallsMade ==
    Cardinality({i \in 1..Len(stderr) : stderr[i] \in Tracebacks})
      + Cardinality({i \in 1..Len(stack) : stack[i].pc \in {"msg", "tb"}})

\* the program calls fancyError
CallFancyError ==
    \E critical_msg \in MsgArgs, singleton_hook \in HookArgs :
        /\ Running
        /\ stack = <<>>
        /\ stack' = <<Frame(critical_msg, singleton_hook)>>
        /\ UNCHANGED <<defaults, stderr, hookRuns, process, colorVars, call,
                       customSpecificationsMapping, mkVars, xmlVars>>

\* lines 523-524
FeMessage ==
    /\ At("msg")
    /\ stderr' = IF Truthy(Top.critical_msg)
                   THEN Append(stderr, critical(Top.critical_msg.val, BOLD_RED, "stderr"))
                   ELSE stderr
    /\ Goto("tb")
    /\ UNCHANGED <<defaults, hookRuns, process, colorVars, call,
                   customSpecificationsMapping, mkVars, xmlVars>>

\* line 526
FeTraceback ==
    \E tb \in Tracebacks :
        /\ At("tb")
        /\ stderr' = Append(stderr, tb)
        /\ Goto("check")
        /\ UNCHANGED <<defaults, hookRuns, process, colorVars, call,
                       customSpecificationsMapping, mkVars, xmlVars>>

\* lines 528-533 with the hook invoked before the defaults are reset
FeFireHookFirst ==
    /\ At("check")
    /\ IF Truthy(Top.singleton_hook)
         THEN /\ hookRuns' = [hookRuns EXCEPT ![Top.singleton_hook.name] = @ + 1]
              /\ Goto("inhook")
         ELSE UNCHANGED hookRuns /\ Goto("exit")
    /\ UNCHANGED <<defaults, stderr, process, colorVars, call,
                   customSpecificationsMapping, mkVars, xmlVars>>

\* lines 528-531: with a hook, reset the defaults; without one, go to the exit
FeFire ==
    /\ At("check")
    /\ IF Truthy(Top.singleton_hook)
         THEN defaults' = <<PyNone, PyNone>> /\ Goto("call")
         ELSE UNCHANGED defaults /\ Goto("exit")
    /\ UNCHANGED <<stderr, hookRuns, process, colorVars, call,
                   customSpecificationsMapping, mkVars, xmlVars>>

\* line 533: the hook is entered
FeInvokeHook ==
    /\ At("call")
    /\ hookRuns' = [hookRuns EXCEPT ![Top.singleton_hook.name] = @ + 1]
    /\ Goto("inhook")
    /\ UNCHANGED <<defaults, stderr, process, colorVars, call,
                   customSpecificationsMapping, mkVars, xmlVars>>

\* the hook returns
HookReturns ==
    /\ At("inhook")
    /\ Goto("exit")
    /\ UNCHANGED <<defaults, stderr, hookRuns, process, colorVars, call,
                   customSpecificationsMapping, mkVars, xmlVars>>

\* the hook raises an Exception: line 534 catches it
HookRaisesException ==
    /\ At("inhook")
    /\ Goto("report")
    /\ UNCHANGED <<defaults, stderr, hookRuns, process, colorVars, call,
                   customSpecificationsMapping, mkVars, xmlVars>>

\* the hook raises a BaseException that is no Exception (SystemExit from
\* sys.exit(), KeyboardInterrupt): line 534 does not catch it, and it leaves
\* fancyError for its caller: the hook of the enclosing call, or the program
HookRaisesBaseException ==
    /\ At("inhook")
    /\ stack' = SubSeq(stack, 1, Len(stack) - 1)
    /\ process' = IF Len(stack) = 1
                    THEN [state |-> "raised", exc |-> "SystemExit"]
                    ELSE process
    /\ UNCHANGED <<defaults, stderr, hookRuns, colorVars, call,
                   customSpecificationsMapping, mkVars, xmlVars>>

\* the hook calls fancyError
HookCallsFancyError ==
    \E critical_msg \in MsgArgs, singleton_hook \in HookArgs :
        /\ At("inhook")
        /\ Len(stack) < MaxDepth
        /\ CallsMade < MaxCalls
        /\ stack' = Append(stack, Frame(critical_msg, singleton_hook))
        /\ UNCHANGED <<defaults, stderr, hookRuns, process, colorVars, call,
                       customSpecificationsMapping, mkVars, xmlVars>>

\* lines 535-537
FeReport ==
    /\ At("report")
    /\ stderr' = Append(stderr,
                        critical(HookExceptionMessage(<<"boom">>), BOLD_RED, "stderr"))
    /\ Goto("exit")
    /\ UNCHANGED <<defaults, hookRuns, process, colorVars, call,
                   customSpecificationsMapping, mkVars, xmlVars>>

\* line 539: os._exit(1)
FeExit ==
    /\ At("exit")
    /\ process' = [state |-> "exited", status |-> 1]
    /\ UNCHANGED <<stack, defaults, stderr, hookRuns, colorVars, call,
                   customSpecificationsMapping, mkVars, xmlVars>>

InitFatal ==
    /\ alwaysColorize \in BOOLEAN
    /\ isatty \in {[stdout |-> FALSE, stderr |-> t] : t \in BOOLEAN}
    /\ stack = <<>>
    /\ defaults = <<PyNone, PyNone>>
    /\ stderr = <<>>
    /\ hookRuns = [h \in Hooks |-> 0]
    /\ process = [state |-> "running"]
    /\ call = NoCall
    /\ IdleKind /\ IdleMk /\ IdleXml

NextFatal ==
    \/ CallFancyError
    \/ FeMessage
    \/ FeTraceback
    \/ FeFire
    \/ FeInvokeHook
    \/ HookReturns
    \/ HookRaisesException
    \/ HookRaisesBaseException
    \/ HookCallsFancyError
    \/ FeReport
    \/ FeExit

SpecFatal == InitFatal /\ [][NextFatal]_vars

----------------------------------------------------------------------------
(* Properties of fancyError *)

\* the call of frame f has written its critical message
WroteMessage(f) == Truthy(f.critical_msg) /\ f.pc # "msg"

\* the call of frame f has invoked its hook
InvokedHook(f) == Truthy(f.singleton_hook) /\ f.pc \in {"inhook", "report", "exit"}

\* C1: once fancyError has been called with a cleanup hook, a later call,
\* whatever its arguments (a call made from inside the hook included),
\* neither invokes the hook again nor writes the critical message again; a
\* hook runs at most once.
C1_OneShotShutdown ==
    /\ \A h \in Hooks : hookRuns[h] <= 1
    /\ \A i \in 2..Len(stack) : ~WroteMessage(stack[i]) /\ ~InvokedHook(stack[i])

\* C2: every call of fancyError ends in the process exiting with status 1;
\* it never returns to its caller nor raises into it, whatever the hook does.
C2_AlwaysExitsWithStatusOne ==
    /\ process.state \in {"running", "exited"}
    /\ process.state = "exited" => process.status = 1
    /\ (process.state = "running" /\ stack = <<>>) => stderr = <<>>

\* the place of a position of fancyError in the order of its statements
Rank(pc) ==
    CASE pc = "msg"    -> 0
      [] pc = "tb"     -> 1
      [] pc = "check"  -> 2
      [] pc = "call"   -> 3
      [] pc = "inhook" -> 4
      [] pc = "report" -> 5
      [] pc = "exit"   -> 6

\* the fired state: the defaults are reset
Fired == defaults = <<PyNone, PyNone>>

Last(log) == log[Len(log)]

\* the last two writes to stderr are the critical message of frame f and
\* then a traceback
WroteMessageThenTraceback(f) ==
    /\ Len(stderr) >= 2
    /\ Last(stderr) \in Tracebacks
    /\ stderr[Len(stderr) - 1] = critical(f.critical_msg.val, BOLD_RED, "stderr")

\* one step of a call that was given both a message and a hook: what the
\* step does, and where in the order of events it does it
EventInOrder ==
    (Running /\ stack # <<>> /\ Truthy(Top.critical_msg) /\ Truthy(Top.singleton_hook)) =>
        LET f       == Top
            d       == Len(stack)
            wrote   == stderr' # stderr
            invoked == hookRuns' # hookRuns
            exited  == process'.state = "exited"
            stays   == Len(stack') >= d
        IN  \* a write is the message, then the traceback, and after the
            \* hook the report of its exception
            /\ wrote =>
                 /\ Len(stderr') = Len(stderr) + 1
                 /\ SubSeq(stderr', 1, Len(stderr)) = stderr
                 /\ \/ /\ f.pc = "msg"
                       /\ Last(stderr') = critical(f.critical_msg.val, BOLD_RED, "stderr")
                       /\ stack'[d].pc = "tb"
                    \/ /\ f.pc = "tb"
                       /\ Last(stderr') \in Tracebacks
                       /\ Last(stderr) = critical(f.critical_msg.val, BOLD_RED, "stderr")
                       /\ stack'[d].pc = "check"
                    \/ /\ f.pc = "report"
                       /\ Last(stderr') =
                              critical(HookExceptionMessage(<<"boom">>), BOLD_RED, "stderr")
                       /\ hookRuns[f.singleton_hook.name] >= 1
                       /\ stack'[d].pc = "exit"
            \* the message and the traceback are not skipped
            /\ (stays /\ f.pc \in {"msg", "tb"} /\ stack'[d].pc # f.pc) => wrote
            \* the hook is invoked after both writes and after the transition
            /\ invoked =>
                 /\ f.pc = "call"
                 /\ Fired
                 /\ WroteMessageThenTraceback(f)
                 /\ hookRuns' = [hookRuns EXCEPT ![f.singleton_hook.name] = @ + 1]
                 /\ stack'[d].pc = "inhook"
            \* the transition is made between the traceback and the hook
            /\ (stays /\ f.pc = "check") =>
                 /\ stack'[d].pc = "call"
                 /\ Fired'
                 /\ WroteMessageThenTraceback(f)
                 /\ ~invoked
            \* the state is fired while the hook runs
            /\ (stays /\ stack'[d].pc = "inhook") => Fired'
            \* the exit comes last, after the hook
            /\ exited =>
                 /\ f.pc = "exit"
                 /\ process'.status = 1
                 /\ hookRuns[f.singleton_hook.name] >= 1
                 /\ ~wrote /\ ~invoked
            \* the call only moves forward through its statements
            /\ stays => Rank(stack'[d].pc) >= Rank(f.pc)

====
